---- MODULE Spec2Model ----
(***************************************************************************)
(* Model of the file service of src/Code: upload_file, view_stored_files,  *)
(* merge_files_temporarily and save_merged_dataset (main.py) over the      *)
(* MinIO object store (minio_service.py), the PostgreSQL catalog           *)
(* (database.py) and the in-memory result cache (FastAPICache).            *)
(*                                                                         *)
(* calls[i] is the i-th request the service received, with its arguments,  *)
(* its local variables and, once it has returned, its response.  A handler *)
(* is split at its calls to the three stores, so that the store calls of   *)
(* concurrent requests interleave.                                         *)
(***************************************************************************)
EXTENDS Integers, Sequences, FiniteSets, TLC

VARIABLES
    minio_service,  \* "up", or "None" when MinioService() raised at import
    store,          \* the bucket: object name -> bytes
    catalog,        \* table files: sequence of [id, filename, format]
    cache,          \* InMemoryBackend: key -> [value, ttl_ts]
    issued,         \* the uuid4 values generated so far
    now,            \* the clock the cache reads, in seconds
    calls,          \* i -> the i-th request
    ncalls,         \* the number of requests received
    join            \* the inputs and the output of one pd.merge

vars == <<minio_service, store, catalog, cache, issued, now, calls, ncalls, join>>

----------------------------------------------------------------------------
(* Bounds of the model *)

MaxCalls == 3
MaxTicks == 2
MaxRows == 2

(* timedelta(hours=1).total_seconds() *)
TTL == 3600

Procs == 1..MaxCalls
\* the clock advances by one TTL at a time
TickSeconds == TTL

----------------------------------------------------------------------------
(* Values, column names and tables.                                        *)
(* A value is <<"i", n>> (an integer) or <<"s", text>> (a string).         *)
(* A column name is a sequence of text parts: <<"x">>, <<"x", "_x">>.      *)
(* A DataFrame is [columns, rows], each row aligned with columns.          *)

IntText == <<"1", "2", "3">>

IsNumText(s) == \E n \in 1..Len(IntText) : IntText[n] = s

\* how to_csv writes a value
Fmt(v) == IF v[1] = "i" THEN IntText[v[2]] ELSE v[2]

\* how read_csv / read_json type a text
Parse(s) ==
    IF IsNumText(s)
    THEN <<"i", CHOOSE n \in 1..Len(IntText) : IntText[n] = s>>
    ELSE <<"s", s>>

EmptyFrame == [columns |-> <<>>, rows |-> <<>>]

HasCol(df, c) == \E i \in 1..Len(df.columns) : df.columns[i] = c

ColIndex(df, c) == CHOOSE i \in 1..Len(df.columns) : df.columns[i] = c

DropCol(row, k) ==
    [i \in 1..(Len(row) - 1) |-> IF i < k THEN row[i] ELSE row[i + 1]]

\* the columns of pd.merge(l, r, on=on): the left columns, then the right
\* columns but the key; a name on both sides gets the suffix _x or _y
MergeColumns(l, r, on) ==
    LET lc == [i \in 1..Len(l.columns) |->
                 IF l.columns[i] # on /\ HasCol(r, l.columns[i])
                 THEN Append(l.columns[i], "_x") ELSE l.columns[i]]
        rk == SelectSeq(r.columns, LAMBDA c : c # on)
        rc == [i \in 1..Len(rk) |->
                 IF HasCol(l, rk[i]) THEN Append(rk[i], "_y") ELSE rk[i]]
    IN lc \o rc

\* a left row with a right row of the same key
Combine(lrow, rrow, rk) == lrow \o DropCol(rrow, rk)

RECURSIVE MatchRowsFirstOnly(_, _, _, _, _)
MatchRowsFirstOnly(lrow, lk, rrows, rk, j) ==
    IF j > Len(rrows) THEN <<>>
    ELSE IF rrows[j][rk] = lrow[lk] THEN <<Combine(lrow, rrows[j], rk)>>
    ELSE MatchRowsFirstOnly(lrow, lk, rrows, rk, j + 1)

\* the rows of the right table, from row j on, that match one left row
RECURSIVE MatchRows(_, _, _, _, _)
MatchRows(lrow, lk, rrows, rk, j) ==
    IF j > Len(rrows) THEN <<>>
    ELSE (IF rrows[j][rk] = lrow[lk]
          THEN <<Combine(lrow, rrows[j], rk)>> ELSE <<>>)
         \o MatchRows(lrow, lk, rrows, rk, j + 1)

RECURSIVE JoinRows(_, _, _, _, _)
JoinRows(lrows, lk, rrows, rk, i) ==
    IF i > Len(lrows) THEN <<>>
    ELSE MatchRows(lrows[i], lk, rrows, rk, 1)
         \o JoinRows(lrows, lk, rrows, rk, i + 1)

\* pd.merge(df1, df2, on=common_column, how='inner'); a KeyError when the
\* key is no column of one side
pd_merge(l, r, on) ==
    IF HasCol(l, on) /\ HasCol(r, on)
    THEN [ok |-> TRUE,
          df |-> [columns |-> MergeColumns(l, r, on),
                  rows |-> JoinRows(l.rows, ColIndex(l, on),
                                    r.rows, ColIndex(r, on), 1)]]
    ELSE [ok |-> FALSE, df |-> EmptyFrame]

\* merged_df.to_json(orient="records"): one object per row, each a sequence
\* of <<column, value>>; a frame with no rows gives "[]"
to_json(df) ==
    [i \in 1..Len(df.rows) |->
        [j \in 1..Len(df.columns) |-> <<df.columns[j], df.rows[i][j]>>]]

\* pd.read_json(merged_json, orient="records"): the columns are the keys of
\* the objects; a column of numeric strings is converted to numbers
read_json(js) ==
    IF Len(js) = 0 THEN EmptyFrame
    ELSE LET cols == [j \in 1..Len(js[1]) |-> js[1][j][1]]
             raw(i, j) == js[i][j][2]
             numeric(j) == \A i \in 1..Len(js) :
                              raw(i, j)[1] = "s" /\ IsNumText(raw(i, j)[2])
         IN [columns |-> cols,
             rows |-> [i \in 1..Len(js) |->
                         [j \in 1..Len(cols) |->
                             IF numeric(j) THEN Parse(raw(i, j)[2])
                             ELSE raw(i, j)]]]

\* merged_df.to_csv(output_buffer, index=False): a header line and one line
\* of texts per row
to_csv(df) ==
    [enc |-> "csv", header |-> df.columns,
     lines |-> [i \in 1..Len(df.rows) |->
                  [j \in 1..Len(df.columns) |-> <<"s", Fmt(df.rows[i][j])>>]]]

\* merged_df.to_excel(output_buffer, index=False): a sheet of typed cells
to_excel(df) == [enc |-> "xlsx", header |-> df.columns, lines |-> df.rows]

DecodeError == [ok |-> FALSE, df |-> EmptyFrame]

\* pd.read_csv: no header line is EmptyDataError; every field is typed
read_csv(blob) ==
    IF blob.enc # "csv" \/ Len(blob.header) = 0 THEN DecodeError
    ELSE [ok |-> TRUE,
          df |-> [columns |-> blob.header,
                  rows |-> [i \in 1..Len(blob.lines) |->
                              [j \in 1..Len(blob.header) |->
                                  Parse(blob.lines[i][j][2])]]]]

\* pd.read_excel
read_excel(blob) ==
    IF blob.enc # "xlsx" THEN DecodeError
    ELSE [ok |-> TRUE, df |-> [columns |-> blob.header, rows |-> blob.lines]]

get_file_dataframe(minio_data, file_format) ==
    IF file_format = "csv" THEN read_csv(minio_data)
    ELSE IF file_format \in {"xlsx", "xls"} THEN read_excel(minio_data)
    ELSE DecodeError

----------------------------------------------------------------------------
(* File names, the inputs of the requests, the three stores *)

\* str.lower() on the extensions the inputs use
Lower(s) == CASE s = "CSV" -> "csv" [] s = "XLSX" -> "xlsx" [] OTHER -> s

\* os.path.splitext(filename)[1].lower().strip('.'), for a file name given as
\* <<stem, extension>>
FormatOf(filename) == Lower(filename[2])

I(n) == <<"i", n>>
S(t) == <<"s", t>>

TableA == [columns |-> << <<"id">>, <<"x">> >>,
           rows |-> << <<I(1), S("a")>>, <<I(1), S("b")>> >>]

TableE == [columns |-> << <<"id">>, <<"y">> >>, rows |-> <<>>]

UploadNames == { <<"a", "CSV">>, <<"out", "csv">>, <<"n", "txt">> }
UploadContents == { to_csv(TableA), to_csv(TableE) }
CommitNames == { <<"out", "csv">>, <<"out", "xls">>, <<"n", "txt">> }
FileIds == {1, 2}
Columns == { <<"id">>, <<"x">> }
PutOutcomes == { "ok", "S3Error", "ConnectionError" }

EmptyMap == [x \in {} |-> x]
Remove(map, k) == [x \in DOMAIN map \ {k} |-> map[x]]

NoResult == [status |-> 0, detail |-> "", file |-> <<>>, cache_key |-> 0,
             column |-> <<>>, rows |-> <<>>]
Result(status, detail) == [NoResult EXCEPT !.status = status, !.detail = detail]

Idle == [op |-> "none", pc |-> "idle", seq |-> 0, filename |-> <<>>, file_format |-> "",
         data |-> <<>>, ids |-> <<>>, common_column |-> <<>>, cache_key |-> 0,
         metas |-> <<>>, merged_df |-> <<>>, merged_json |-> <<>>,
         db_file |-> <<>>,
         result |-> NoResult]

\* request p is the next one to arrive
Free(p) ==
    /\ p = ncalls + 1
    /\ ncalls < MaxCalls
    /\ ncalls' = ncalls + 1

Finish(call, result) == [call EXCEPT !.pc = "done", !.result = result]

\* the condition of line 68 of main.py
UploadFormatOkAll(file_format) == TRUE
UploadFormatOk(file_format) == file_format \in {"csv", "xlsx"}

\* Column(String, unique=True): the insert of a name the table holds fails
UniqueViolationOff(filename) == FALSE
UniqueViolation(filename) ==
    \E i \in 1..Len(catalog) : catalog[i].filename = filename

\* FileMetadata(filename=..., format=...) as the table stores it
FileMetadata(filename, file_format) ==
    [id |-> Len(catalog) + 1, filename |-> filename, format |-> file_format]

\* db.query(FileMetadata).filter(FileMetadata.id == file_id).first()
QueryFirst(file_id) == SelectSeq(catalog, LAMBDA r : r.id = file_id)

\* InMemoryBackend.get: an entry past its ttl_ts is dropped and reads as None
CacheHitNoExpiry(key) == key \in DOMAIN cache
CacheHit(key) == key \in DOMAIN cache /\ ~(cache[key].ttl_ts < now)

CacheAfterGet(key) ==
    IF key \in DOMAIN cache /\ cache[key].ttl_ts < now
    THEN Remove(cache, key) ELSE cache

\* the condition of line 118 of main.py
ColumnMissingBoth(df1, df2, common_column) ==
    ~HasCol(df1, common_column) /\ ~HasCol(df2, common_column)
ColumnMissing(df1, df2, common_column) ==
    ~HasCol(df1, common_column) \/ ~HasCol(df2, common_column)

\* merged_df.head()
Head5(rows) == SubSeq(rows, 1, IF Len(rows) < 5 THEN Len(rows) ELSE 5)

\* str(uuid.uuid4()): a value no earlier call drew
FreshKeyReused == IF issued = {} THEN 1 ELSE CHOOSE k \in issued : TRUE
FreshKey == Cardinality(issued) + 1

\* the keys a client may send: those issued, and one that never was
Keys == issued \cup {FreshKey}

----------------------------------------------------------------------------
(* upload_file *)

UploadStart(p, filename, file_content) ==
    /\ Free(p)
    /\ LET file_format == FormatOf(filename)
           call == [Idle EXCEPT !.seq = ncalls', !.op = "upload", !.filename = filename,
                                !.file_format = file_format,
                                !.data = file_content]
       IN calls' = [calls EXCEPT ![p] =
                      IF ~UploadFormatOk(file_format)
                      THEN Finish(call, Result(400, "Invalid file format."))
                      ELSE [call EXCEPT !.pc = "put"]]
    /\ UNCHANGED <<minio_service, store, catalog, cache, issued, now, join>>

UploadPut(p, outcome) ==
    /\ calls[p].op = "upload" /\ calls[p].pc = "put"
    /\ IF minio_service = "None" \/ outcome = "S3Error"
       THEN /\ calls' = [calls EXCEPT ![p] = Finish(@,
                           Result(500, "Failed to upload file to MinIO"))]
            /\ UNCHANGED store
       ELSE IF outcome = "ConnectionError"
       THEN /\ calls' = [calls EXCEPT ![p] = Finish(@,
                           Result(503, "MinIO Service Unavailable"))]
            /\ UNCHANGED store
       ELSE /\ store' = (calls[p].filename :> calls[p].data) @@ store
            /\ calls' = [calls EXCEPT ![p].pc = "insert"]
    /\ UNCHANGED <<minio_service, catalog, cache, issued, now, ncalls, join>>

\* a variant that writes over the record of a name the table holds
UploadInsertUpsert(p) ==
    /\ calls[p].op = "upload" /\ calls[p].pc = "insert"
    /\ LET db_file == FileMetadata(calls[p].filename, calls[p].file_format)
       IN /\ catalog' =
                IF UniqueViolation(calls[p].filename)
                THEN [i \in 1..Len(catalog) |->
                        IF catalog[i].filename = calls[p].filename
                        THEN db_file ELSE catalog[i]]
                ELSE Append(catalog, db_file)
          /\ calls' = [calls EXCEPT ![p] = Finish(@,
               [Result(201, "Created") EXCEPT !.file = <<db_file>>])]
    /\ UNCHANGED <<minio_service, store, cache, issued, now, ncalls, join>>

\* a variant that takes the blob back when the insert fails
UploadInsertRollback(p) ==
    /\ calls[p].op = "upload" /\ calls[p].pc = "insert"
    /\ IF UniqueViolation(calls[p].filename)
       THEN /\ calls' = [calls EXCEPT ![p] = Finish(@,
                 Result(500, "Database error: Failed to store file metadata."))]
            /\ store' = Remove(store, calls[p].filename)
            /\ UNCHANGED catalog
       ELSE LET db_file == FileMetadata(calls[p].filename, calls[p].file_format)
            IN /\ catalog' = Append(catalog, db_file)
               /\ calls' = [calls EXCEPT ![p] = Finish(@,
                    [Result(201, "Created") EXCEPT !.file = <<db_file>>])]
               /\ UNCHANGED store
    /\ UNCHANGED <<minio_service, cache, issued, now, ncalls, join>>

UploadInsert(p) ==
    /\ calls[p].op = "upload" /\ calls[p].pc = "insert"
    /\ IF UniqueViolation(calls[p].filename)
       THEN /\ calls' = [calls EXCEPT ![p] = Finish(@,
                 Result(500, "Database error: Failed to store file metadata."))]
            /\ UNCHANGED catalog
       ELSE LET db_file == FileMetadata(calls[p].filename, calls[p].file_format)
            IN /\ catalog' = Append(catalog, db_file)
               /\ calls' = [calls EXCEPT ![p] = Finish(@,
                    [Result(201, "Created") EXCEPT !.file = <<db_file>>])]
    /\ UNCHANGED <<minio_service, store, cache, issued, now, ncalls, join>>

(* view_stored_files *)

ViewStoredFiles(p) ==
    /\ Free(p)
    /\ calls' = [calls EXCEPT ![p] = Finish([Idle EXCEPT !.seq = ncalls', !.op = "list"],
                   [Result(200, "OK") EXCEPT !.rows = catalog])]
    /\ UNCHANGED <<minio_service, store, catalog, cache, issued, now, join>>

----------------------------------------------------------------------------
(* merge_files_temporarily *)

MergeStart(p, file_id_1, file_id_2, common_column) ==
    /\ Free(p)
    /\ LET meta1 == QueryFirst(file_id_1)
           meta2 == QueryFirst(file_id_2)
           call == [Idle EXCEPT !.seq = ncalls', !.op = "merge",
                                !.ids = <<file_id_1, file_id_2>>,
                                !.common_column = common_column]
       IN calls' = [calls EXCEPT ![p] =
                      IF meta1 = <<>> \/ meta2 = <<>>
                      THEN Finish(call,
                             Result(404, "One or both file IDs not found."))
                      ELSE [call EXCEPT !.pc = "fetch",
                                        !.metas = <<meta1[1], meta2[1]>>]]
    /\ UNCHANGED <<minio_service, store, catalog, cache, issued, now, join>>

\* a variant that stages the first table before it looks for the column
MergeFetchStagesFirst(p) ==
    /\ calls[p].op = "merge" /\ calls[p].pc = "fetch"
    /\ LET meta1 == calls[p].metas[1]
           meta2 == calls[p].metas[2]
           col == calls[p].common_column
           fetched == /\ minio_service # "None"
                      /\ meta1.filename \in DOMAIN store
                      /\ meta2.filename \in DOMAIN store
           d1 == get_file_dataframe(store[meta1.filename], meta1.format)
           d2 == get_file_dataframe(store[meta2.filename], meta2.format)
           merged == pd_merge(d1.df, d2.df, col)
       IN /\ calls' = [calls EXCEPT ![p] =
               IF ~fetched \/ ~d1.ok \/ ~d2.ok
               THEN Finish(@, Result(500, "Error fetching/reading files"))
               ELSE IF ColumnMissing(d1.df, d2.df, col)
               THEN Finish(@, [Result(400, "Common column not found.")
                                 EXCEPT !.column = col])
               ELSE IF ~merged.ok
               THEN Finish(@, Result(500, "Internal Server Error"))
               ELSE [@ EXCEPT !.pc = "cache_set",
                              !.merged_df = <<merged.df>>,
                              !.merged_json = to_json(merged.df),
                              !.data = Head5(merged.df.rows)]]
          /\ cache' = IF fetched /\ d1.ok
                      THEN (FreshKey :> [value |-> to_json(d1.df),
                                         ttl_ts |-> now + TTL]) @@ cache
                      ELSE cache
    /\ UNCHANGED <<minio_service, store, catalog, issued, now, ncalls, join>>

MergeFetch(p) ==
    /\ calls[p].op = "merge" /\ calls[p].pc = "fetch"
    /\ LET meta1 == calls[p].metas[1]
           meta2 == calls[p].metas[2]
           col == calls[p].common_column
           fetched == /\ minio_service # "None"
                      /\ meta1.filename \in DOMAIN store
                      /\ meta2.filename \in DOMAIN store
           d1 == get_file_dataframe(store[meta1.filename], meta1.format)
           d2 == get_file_dataframe(store[meta2.filename], meta2.format)
           merged == pd_merge(d1.df, d2.df, col)
       IN calls' = [calls EXCEPT ![p] =
            IF ~fetched \/ ~d1.ok \/ ~d2.ok
            THEN Finish(@, Result(500, "Error fetching/reading files"))
            ELSE IF ColumnMissing(d1.df, d2.df, col)
            THEN Finish(@, [Result(400, "Common column not found.")
                              EXCEPT !.column = col])
            ELSE IF ~merged.ok
            THEN Finish(@, Result(500, "Internal Server Error"))
            ELSE [@ EXCEPT !.pc = "cache_set",
                           !.merged_df = <<merged.df>>,
                           !.merged_json = to_json(merged.df),
                           !.data = Head5(merged.df.rows)]]
    /\ UNCHANGED <<minio_service, store, catalog, cache, issued, now, ncalls, join>>

MergeCacheSet(p) ==
    /\ calls[p].op = "merge" /\ calls[p].pc = "cache_set"
    /\ LET cache_key == FreshKey
       IN /\ cache' = (cache_key :> [value |-> calls[p].merged_json,
                                     ttl_ts |-> now + TTL]) @@ cache
          /\ issued' = issued \cup {cache_key}
          /\ calls' = [calls EXCEPT ![p] = Finish([@ EXCEPT !.cache_key = cache_key],
                 [Result(200, "Merged dataset cached in memory")
                    EXCEPT !.cache_key = cache_key, !.rows = calls[p].data])]
    /\ UNCHANGED <<minio_service, store, catalog, now, ncalls, join>>

----------------------------------------------------------------------------
(* save_merged_dataset *)

CommitGet(p, cache_key, new_filename) ==
    /\ Free(p)
    /\ cache' = CacheAfterGet(cache_key)
    /\ LET file_format == FormatOf(new_filename)
           call == [Idle EXCEPT !.seq = ncalls', !.op = "commit", !.cache_key = cache_key,
                                !.filename = new_filename,
                                !.file_format = file_format]
           merged_df == read_json(cache[cache_key].value)
       IN calls' = [calls EXCEPT ![p] =
            IF ~CacheHit(cache_key)
            THEN Finish(call, Result(404,
                   "Merged dataset not found or has expired in cache."))
            ELSE IF file_format = "csv"
            THEN [call EXCEPT !.pc = "put", !.data = to_csv(merged_df)]
            ELSE IF file_format \in {"xlsx", "xls"}
            THEN [call EXCEPT !.pc = "put", !.data = to_excel(merged_df)]
            ELSE Finish(call,
                   Result(400, "New file format must be CSV or XLSX."))]
    /\ UNCHANGED <<minio_service, store, catalog, issued, now, join>>

\* a variant that goes on to the catalog insert when the put has failed
CommitPutSwallowed(p, outcome) ==
    /\ calls[p].op = "commit" /\ calls[p].pc = "put"
    /\ IF minio_service = "None" \/ outcome # "ok"
       THEN /\ calls' = [calls EXCEPT ![p].pc = "insert"]
            /\ UNCHANGED store
       ELSE /\ store' = (calls[p].filename :> calls[p].data) @@ store
            /\ calls' = [calls EXCEPT ![p].pc = "insert"]
    /\ UNCHANGED <<minio_service, catalog, cache, issued, now, ncalls, join>>

CommitPut(p, outcome) ==
    /\ calls[p].op = "commit" /\ calls[p].pc = "put"
    /\ IF minio_service = "None" \/ outcome # "ok"
       THEN /\ calls' = [calls EXCEPT ![p] = Finish(@,
                           Result(500, "Failed to upload merged file to MinIO"))]
            /\ UNCHANGED store
       ELSE /\ store' = (calls[p].filename :> calls[p].data) @@ store
            /\ calls' = [calls EXCEPT ![p].pc = "insert"]
    /\ UNCHANGED <<minio_service, catalog, cache, issued, now, ncalls, join>>

\* a variant that deletes the cache entry when db.commit() raises
CommitInsertDeleteOnError(p) ==
    /\ calls[p].op = "commit" /\ calls[p].pc = "insert"
    /\ IF UniqueViolation(calls[p].filename)
       THEN /\ calls' = [calls EXCEPT ![p] = Finish(@,
                           Result(500, "Internal Server Error"))]
            /\ cache' = Remove(cache, calls[p].cache_key)
            /\ UNCHANGED catalog
       ELSE LET db_file == FileMetadata(calls[p].filename, calls[p].file_format)
            IN /\ catalog' = Append(catalog, db_file)
               /\ calls' = [calls EXCEPT ![p].pc = "delete",
                                         ![p].db_file = <<db_file>>]
               /\ UNCHANGED cache
    /\ UNCHANGED <<minio_service, store, issued, now, ncalls, join>>

\* db.add, db.commit, db.refresh: the IntegrityError of a name the table
\* holds is not caught, and line 180 is not reached
CommitInsert(p) ==
    /\ calls[p].op = "commit" /\ calls[p].pc = "insert"
    /\ IF UniqueViolation(calls[p].filename)
       THEN /\ calls' = [calls EXCEPT ![p] = Finish(@,
                           Result(500, "Internal Server Error"))]
            /\ UNCHANGED catalog
       ELSE LET db_file == FileMetadata(calls[p].filename, calls[p].file_format)
            IN /\ catalog' = Append(catalog, db_file)
               /\ calls' = [calls EXCEPT ![p].pc = "delete",
                                         ![p].db_file = <<db_file>>]
    /\ UNCHANGED <<minio_service, store, cache, issued, now, ncalls, join>>

\* a variant in which line 180 leaves the entry where it is
CommitDeleteKeeps(p) ==
    /\ calls[p].op = "commit" /\ calls[p].pc = "delete"
    /\ calls' = [calls EXCEPT ![p] = Finish(@,
           [Result(201, "Created") EXCEPT !.file = calls[p].db_file])]
    /\ UNCHANGED <<minio_service, store, catalog, cache, issued, now, ncalls, join>>

\* await cache_backend.delete(cache_key): the backend's method is not part of
\* the source; it is taken to drop the entry under the key, if there is one
CommitDelete(p) ==
    /\ calls[p].op = "commit" /\ calls[p].pc = "delete"
    /\ cache' = Remove(cache, calls[p].cache_key)
    /\ calls' = [calls EXCEPT ![p] = Finish(@,
           [Result(201, "Created") EXCEPT !.file = calls[p].db_file])]
    /\ UNCHANGED <<minio_service, store, catalog, issued, now, ncalls, join>>

----------------------------------------------------------------------------
(* Time passes *)

\* the clock is read only against the entries of the cache
Tick ==
    /\ now < MaxTicks * TickSeconds
    /\ DOMAIN cache # {}
    /\ now' = now + TickSeconds
    /\ UNCHANGED <<minio_service, store, catalog, cache, issued, calls, ncalls, join>>

JoinUnused == [phase |-> "unused", df1 |-> EmptyFrame, df2 |-> EmptyFrame,
               on |-> <<>>, merged |-> EmptyFrame]

\* minio_service is MinioService(), or None when its construction raised
Init ==
    /\ minio_service \in {"up", "None"}
    /\ store = EmptyMap
    /\ catalog = <<>>
    /\ cache = EmptyMap
    /\ issued = {}
    /\ now = 0
    /\ calls = [p \in Procs |-> Idle]
    /\ ncalls = 0
    /\ join = JoinUnused

Next ==
    \/ \E p \in Procs, f \in UploadNames, c \in UploadContents : UploadStart(p, f, c)
    \/ \E p \in Procs, o \in PutOutcomes : UploadPut(p, o)
    \/ \E p \in Procs : UploadInsert(p)
    \/ \E p \in Procs : ViewStoredFiles(p)
    \/ \E p \in Procs, i \in FileIds, j \in FileIds, c \in Columns : MergeStart(p, i, j, c)
    \/ \E p \in Procs : MergeFetch(p)
    \/ \E p \in Procs : MergeCacheSet(p)
    \/ \E p \in Procs, k \in Keys, f \in CommitNames : CommitGet(p, k, f)
    \/ \E p \in Procs, o \in PutOutcomes : CommitPut(p, o)
    \/ \E p \in Procs : CommitInsert(p)
    \/ \E p \in Procs : CommitDelete(p)
    \/ Tick

Spec == Init /\ [][Next]_vars

----------------------------------------------------------------------------
(* The service started over a database and a bucket that an earlier run    *)
(* has filled: create_tables and _ensure_bucket_exists keep what is there, *)
(* and the cache, held in memory, starts empty. Its clients merge the file *)
(* that is there and commit the results                                    *)

Kept == <<"a", "CSV">>

InitRestart ==
    /\ minio_service \in {"up", "None"}
    /\ store = (Kept :> to_csv(TableA))
    /\ catalog = << [id |-> 1, filename |-> Kept, format |-> FormatOf(Kept)] >>
    /\ cache = EmptyMap
    /\ issued = {}
    /\ now = 0
    /\ calls = [p \in Procs |-> Idle]
    /\ ncalls = 0
    /\ join = JoinUnused

NextRestart ==
    \/ \E p \in Procs, i \in FileIds, j \in FileIds, c \in Columns : MergeStart(p, i, j, c)
    \/ \E p \in Procs : MergeFetch(p)
    \/ \E p \in Procs : MergeCacheSet(p)
    \/ \E p \in Procs, k \in Keys, f \in CommitNames : CommitGet(p, k, f)
    \/ \E p \in Procs, o \in PutOutcomes : CommitPut(p, o)
    \/ \E p \in Procs : CommitInsert(p)
    \/ \E p \in Procs : CommitDelete(p)
    \/ Tick

SpecRestart == InitRestart /\ [][NextRestart]_vars

----------------------------------------------------------------------------
(* One server process. The cache is an object of the process, so the calls *)
(* that can see one cache entry are served by one event loop; the three    *)
(* handlers that touch the stores are coroutines that do not yield between *)
(* their first store call and their last, so a call is taken up when no    *)
(* other call is under way                                                 *)

Quiet == \A p \in Procs : calls[p].pc \in {"idle", "done"}

NextSerial ==
    \/ Quiet /\ \E p \in Procs, f \in UploadNames, c \in UploadContents : UploadStart(p, f, c)
    \/ \E p \in Procs, o \in PutOutcomes : UploadPut(p, o)
    \/ \E p \in Procs : UploadInsert(p)
    \/ Quiet /\ \E p \in Procs : ViewStoredFiles(p)
    \/ Quiet /\ \E p \in Procs, i \in FileIds, j \in FileIds, c \in Columns : MergeStart(p, i, j, c)
    \/ \E p \in Procs : MergeFetch(p)
    \/ \E p \in Procs : MergeCacheSet(p)
    \/ Quiet /\ \E p \in Procs, k \in Keys, f \in CommitNames : CommitGet(p, k, f)
    \/ \E p \in Procs, o \in PutOutcomes : CommitPut(p, o)
    \/ \E p \in Procs : CommitInsert(p)
    \/ \E p \in Procs : CommitDelete(p)
    \/ Tick

InitSerial == Init \/ InitRestart

SpecSerial == InitSerial /\ [][NextSerial]_vars

----------------------------------------------------------------------------
(* pd.merge alone, on tables of up to MaxRows rows: lines 118 to 121 of    *)
(* main.py applied to two decoded tables                                   *)

JoinKeys == {1, 2}
JoinTexts == {"a", "b"}
JoinRowSet == {<<I(k), S(t)>> : k \in JoinKeys, t \in JoinTexts}
JoinSeqs == UNION {[1..n -> JoinRowSet] : n \in 0..MaxRows}
Swap(rows) == [i \in 1..Len(rows) |-> <<rows[i][2], rows[i][1]>>]
JoinLeft == {[columns |-> << <<"id">>, <<"x">> >>, rows |-> r] : r \in JoinSeqs}
JoinRight ==
    {[columns |-> << <<"id">>, <<"y">> >>, rows |-> r] : r \in JoinSeqs}
    \cup {[columns |-> << <<"x">>, <<"id">> >>, rows |-> Swap(r)] : r \in JoinSeqs}

InitJoin ==
    /\ minio_service = "up"
    /\ store = EmptyMap
    /\ catalog = <<>>
    /\ cache = EmptyMap
    /\ issued = {}
    /\ now = 0
    /\ calls = [p \in Procs |-> Idle]
    /\ ncalls = 0
    /\ \E l \in JoinLeft, r \in JoinRight, c \in Columns :
          join = [phase |-> "in", df1 |-> l, df2 |-> r, on |-> c,
                  merged |-> EmptyFrame]

JoinStep ==
    /\ join.phase = "in"
    /\ join' = IF ColumnMissing(join.df1, join.df2, join.on)
               THEN [join EXCEPT !.phase = "bad_request"]
               ELSE [join EXCEPT !.phase = "merged",
                                 !.merged = pd_merge(join.df1, join.df2, join.on).df]
    /\ UNCHANGED <<minio_service, store, catalog, cache, issued, now, calls, ncalls>>

SpecJoin == InitJoin /\ [][JoinStep]_vars

----------------------------------------------------------------------------
(* Properties *)

DbErrorDetail == "Database error: Failed to store file metadata."
NotFoundResult == Result(404, "Merged dataset not found or has expired in cache.")

InCatalog(rec) == \E i \in 1..Len(catalog) : catalog[i] = rec
RecordsNamed(filename) == {i \in 1..Len(catalog) : catalog[i].filename = filename}

\* request p takes the step that leaves the program point pc
Leaves(p, op, pc) ==
    calls[p].op = op /\ calls[p].pc = pc /\ calls'[p].pc # pc

\* request p arrives as a call of op
Arrives(p, op) == calls[p].pc = "idle" /\ calls'[p].op = op

\* the catalog insert of commit has failed in request p
CommitInsertFailed(p) ==
    /\ calls[p].op = "commit" /\ calls[p].pc = "done"
    /\ calls[p].result.detail = "Internal Server Error"

(* C1, as stated: a commit whose blob is written and whose catalog insert
   fails returns an error, leaves the blob under newFilename in the Object
   Store, and its cacheKey entry is absent from the Result Cache. *)
C1_DeleteIsUnconditional ==
    \A p \in Procs : CommitInsertFailed(p) =>
        /\ calls[p].result.status = 500
        /\ calls[p].filename \in DOMAIN store
        /\ calls[p].cache_key \notin DOMAIN cache

(* C1, amended: the step of commit in which the catalog insert fails returns
   an error and changes none of the three stores: the blob written under
   newFilename stays, no record is added, and the Result Cache, the cacheKey
   entry included, is left as it was. *)
C1_FailedInsertKeepsCacheEntry ==
    [][\A p \in Procs :
          (Leaves(p, "commit", "insert") /\ calls'[p].pc = "done") =>
             /\ calls'[p].result.status = 500
             /\ calls'[p].result.file = <<>>
             /\ calls[p].filename \in DOMAIN store'
             /\ store' = store
             /\ catalog' = catalog
             /\ cache' = cache]_vars

C1_Witness ==
    \E p \in Procs :
        /\ CommitInsertFailed(p)
        /\ calls[p].filename \in DOMAIN store
        /\ calls[p].cache_key \in DOMAIN cache
        /\ store[calls[p].filename] = calls[p].data

(* C2: when an upload of filename f has succeeded, the catalog insert of
   another upload of f fails with the catalog-write error, and the catalog is
   unchanged: the first call's FileRecord is there as it was, and it is the
   only record named f. *)
C2_UploadUniqueness ==
    [][\A p, q \in Procs :
          (/\ Leaves(p, "upload", "insert")
           /\ q # p
           /\ calls[q].op = "upload" /\ calls[q].pc = "done"
           /\ calls[q].result.status = 201
           /\ calls[q].filename = calls[p].filename) =>
             /\ calls'[p].pc = "done"
             /\ calls'[p].result = Result(500, DbErrorDetail)
             /\ catalog' = catalog
             /\ InCatalog(calls[q].result.file[1])'
             /\ Cardinality(RecordsNamed(calls[p].filename))' = 1]_vars

C2_Witness ==
    \E p, q \in Procs :
        /\ calls[q].seq < calls[p].seq
        /\ calls[q].op = "upload" /\ calls[p].op = "upload"
        /\ calls[q].filename = calls[p].filename
        /\ calls[q].pc = "done" /\ calls[q].result.status = 201
        /\ calls[p].pc = "done" /\ calls[p].result = Result(500, DbErrorDetail)
        /\ InCatalog(calls[q].result.file[1])

(* C3: in every reachable state no two FileRecords of the catalog have the
   same filename, and of the upload and commit calls on one filename at most
   one has returned a FileRecord. *)
C3_CatalogNamesUnique ==
    /\ \A i, j \in 1..Len(catalog) :
          catalog[i].filename = catalog[j].filename => i = j
    /\ \A p, q \in Procs :
          (/\ calls[p].pc = "done" /\ calls[p].result.file # <<>>
           /\ calls[q].pc = "done" /\ calls[q].result.file # <<>>
           /\ calls[p].filename = calls[q].filename) => p = q

\* two uploads of one name ran together: the one that arrived first has put
\* its blob and lost the insert to the one that arrived second
C3_Witness ==
    \E p, q \in Procs :
        /\ calls[q].seq < calls[p].seq
        /\ calls[q].op = "upload" /\ calls[p].op = "upload"
        /\ calls[q].filename = calls[p].filename
        /\ calls[p].pc = "done" /\ calls[p].result.status = 201
        /\ calls[q].pc = "done" /\ calls[q].result = Result(500, DbErrorDetail)
        /\ Cardinality(RecordsNamed(calls[p].filename)) = 1

OutCsv == <<"out", "csv">>

(* C4: when merge(A, B, col) has returned cacheKey and commit(cacheKey,
   "out.csv") has then succeeded, the blob stored under "out.csv" decodes to
   a table equal to the inner join of A and B on col. *)
C4_RoundTrip ==
    \A m, c \in Procs :
        (/\ calls[m].op = "merge" /\ calls[m].pc = "done"
         /\ calls[m].result.status = 200
         /\ calls[c].op = "commit" /\ calls[c].pc = "done"
         /\ calls[c].result.status = 201
         /\ calls[c].cache_key = calls[m].result.cache_key
         /\ calls[c].filename = OutCsv
         /\ \A r \in Procs \ {c} : calls[r].filename # OutCsv) =>
            LET decoded == get_file_dataframe(store[OutCsv], "csv")
            IN /\ decoded.ok
               /\ decoded.df = calls[m].merged_df[1]

(* C5: a commit whose cacheKey entry is past its TTL returns the NotFound
   response, the very response of a commit on a key that is not in the cache,
   and in both cases nothing is written to the Object Store or the Catalog. *)
C5_ExpiryIsAbsence ==
    [][\A p \in Procs :
          (/\ Arrives(p, "commit")
           /\ \/ calls'[p].cache_key \notin DOMAIN cache
              \/ cache[calls'[p].cache_key].ttl_ts < now) =>
             /\ calls'[p].pc = "done"
             /\ calls'[p].result = NotFoundResult
             /\ store' = store
             /\ catalog' = catalog]_vars

\* a commit has returned NotFound for a key that a merge had stored and that
\* no commit has consumed: the entry had expired
C5_Witness ==
    \E p, m \in Procs :
        /\ calls[p].op = "commit" /\ calls[p].pc = "done"
        /\ calls[p].result = NotFoundResult
        /\ calls[m].op = "merge" /\ calls[m].pc = "done"
        /\ calls[m].result.cache_key = calls[p].cache_key
        /\ calls[p].cache_key \notin DOMAIN cache
        /\ now > TTL
        /\ \A c \in Procs \ {p} : calls[c].op # "commit"

(* C6: when the construction of the Object Store adapter failed, an upload
   of a file with a supported extension fails with the 503 response, and no
   FileRecord is inserted. *)
C6_UnavailableIs503 ==
    \A p \in Procs :
        (/\ minio_service = "None"
         /\ calls[p].op = "upload" /\ calls[p].pc = "done"
         /\ calls[p].file_format \in {"csv", "xlsx"}) =>
            /\ calls[p].result.status = 503
            /\ RecordsNamed(calls[p].filename) = {}

(* C7: in every reachable state every FileRecord of the catalog has a format
   in {csv, xlsx}: no upload and no commit inserts a record for a filename
   with another extension. *)
C7_FormatsEnumerated ==
    \A i \in 1..Len(catalog) :
        /\ catalog[i].format \in {"csv", "xlsx"}
        /\ FormatOf(catalog[i].filename) \in {"csv", "xlsx"}

\* the two tables merge p is about to read, as they decode
FetchOk(p) ==
    /\ minio_service # "None"
    /\ calls[p].metas[1].filename \in DOMAIN store
    /\ calls[p].metas[2].filename \in DOMAIN store
Decoded(p, n) ==
    get_file_dataframe(store[calls[p].metas[n].filename], calls[p].metas[n].format)

(* C8: a merge whose two files are fetched and decoded, and whose join
   column is absent from one of the two tables, returns the 400 response
   naming that column, and the Result Cache is left as it was: no entry is
   added and no key is issued. *)
C8_MissingColumn ==
    [][\A p \in Procs :
          (/\ Leaves(p, "merge", "fetch")
           /\ FetchOk(p) /\ Decoded(p, 1).ok /\ Decoded(p, 2).ok
           /\ \/ ~HasCol(Decoded(p, 1).df, calls[p].common_column)
              \/ ~HasCol(Decoded(p, 2).df, calls[p].common_column)) =>
             /\ calls'[p].pc = "done"
             /\ calls'[p].result.status = 400
             /\ calls'[p].result.column = calls[p].common_column
             /\ calls'[p].result.cache_key = 0
             /\ cache' = cache
             /\ issued' = issued]_vars

\* the column is in the first table and not in the second
C8_Witness ==
    \E p \in Procs :
        /\ calls[p].op = "merge" /\ calls[p].pc = "done"
        /\ calls[p].result.status = 400
        /\ calls[p].result.column = <<"x">>
        /\ FetchOk(p) /\ Decoded(p, 1).ok /\ Decoded(p, 2).ok
        /\ HasCol(Decoded(p, 1).df, <<"x">>)
        /\ ~HasCol(Decoded(p, 2).df, <<"x">>)
        /\ issued = {}

(* C9: an upload of a filename whose extension is not csv or xlsx returns
   the 400 response at once, before any call to a store: the Object Store,
   the Catalog and the Result Cache are unchanged. *)
C9_UnsupportedFormat ==
    [][\A p \in Procs :
          (/\ Arrives(p, "upload")
           /\ FormatOf(calls'[p].filename) \notin {"csv", "xlsx"}) =>
             /\ calls'[p].pc = "done"
             /\ calls'[p].result.status = 400
             /\ store' = store
             /\ catalog' = catalog
             /\ cache' = cache]_vars

C9_Witness ==
    \E p \in Procs :
        /\ calls[p].op = "upload" /\ calls[p].pc = "done"
        /\ calls[p].filename = <<"n", "txt">>
        /\ calls[p].result.status = 400
        /\ <<"n", "txt">> \notin DOMAIN store
        /\ RecordsNamed(<<"n", "txt">>) = {}

\* the pairs of a row of df1 and a row of df2 with the same key
KeyOf(df, on, i) == df.rows[i][ColIndex(df, on)]
MatchingPairs ==
    {pr \in (1..Len(join.df1.rows)) \X (1..Len(join.df2.rows)) :
        KeyOf(join.df1, join.on, pr[1]) = KeyOf(join.df2, join.on, pr[2])}
\* the row the pair gives: the left row, then the right row but its key
PairRow(pr) ==
    LET b == join.df2.rows[pr[2]]
        k == ColIndex(join.df2, join.on)
    IN join.df1.rows[pr[1]]
       \o [n \in 1..(Len(b) - 1) |-> IF n < k THEN b[n] ELSE b[n + 1]]
Occurrences(rows, row) == Cardinality({n \in 1..Len(rows) : rows[n] = row})
RowsWithKey(df, on, key) ==
    Cardinality({n \in 1..Len(df.rows) : KeyOf(df, on, n) = key})

(* C10: the joined table has exactly one row for every pair of a row of A
   and a row of B with equal join key, and no other row: a key that is in
   one table only gives no row, and a key that is m times in A and n times
   in B gives m*n rows. *)
C10_InnerJoin ==
    join.phase = "merged" =>
        LET rows == join.merged.rows
            key == ColIndex(join.df1, join.on)
        IN /\ Len(rows) = Cardinality(MatchingPairs)
           /\ \A pr \in MatchingPairs :
                 Occurrences(rows, PairRow(pr)) =
                    Cardinality({qr \in MatchingPairs : PairRow(qr) = PairRow(pr)})
           /\ \A n \in 1..Len(rows) : \E pr \in MatchingPairs : rows[n] = PairRow(pr)
           /\ \A v \in {I(k) : k \in JoinKeys} \cup {S(t) : t \in JoinTexts} :
                 Cardinality({n \in 1..Len(rows) : rows[n][key] = v}) =
                    RowsWithKey(join.df1, join.on, v) * RowsWithKey(join.df2, join.on, v)

\* key 1 is twice in A and once in B, and key 2 is in B only
C10_Witness ==
    /\ join.phase = "merged"
    /\ join.on = <<"id">>
    /\ RowsWithKey(join.df1, join.on, I(1)) = 2
    /\ RowsWithKey(join.df2, join.on, I(1)) = 1
    /\ RowsWithKey(join.df1, join.on, I(2)) = 0
    /\ RowsWithKey(join.df2, join.on, I(2)) = 1
    /\ Len(join.merged.rows) = 2

\* the merges that have stored their result
StoredMerges ==
    {p \in Procs : calls[p].op = "merge" /\ calls[p].pc = "done"
                   /\ calls[p].result.status = 200}

(* C11: every cache key is written at most once. A step that puts an entry
   under a key, or changes what is under it, is the cache write of one merge,
   and the key is one that no call drew before and that is not in the cache;
   an entry that stays in the cache keeps its value and its expiry time; no
   two merges have stored under the same key; and a key that was drawn and is
   no longer in the cache is not put back. *)
C11_KeyWrittenOnce ==
    [][/\ \A k \in DOMAIN cache' :
            (k \notin DOMAIN cache \/ cache'[k] # cache[k]) =>
               /\ k \notin issued
               /\ k \notin DOMAIN cache
               /\ \E p \in Procs : /\ Leaves(p, "merge", "cache_set")
                                   /\ calls'[p].result.cache_key = k
                                   /\ cache'[k].value = calls[p].merged_json
       /\ \A j \in issued \ DOMAIN cache : j \notin DOMAIN cache'
       /\ \A p, q \in StoredMerges' :
            calls'[p].result.cache_key = calls'[q].result.cache_key => p = q]_vars

\* two merges have stored their results, under two keys, and both are staged
C11_Witness ==
    \E p, q \in StoredMerges :
        /\ p # q
        /\ calls[p].result.cache_key # calls[q].result.cache_key
        /\ calls[p].result.cache_key \in DOMAIN cache
        /\ calls[q].result.cache_key \in DOMAIN cache
        /\ cache[calls[p].result.cache_key].value = calls[p].merged_json
        /\ cache[calls[q].result.cache_key].value = calls[q].merged_json

\* request p is a commit that has returned its FileRecord
Committed(p) ==
    /\ calls[p].op = "commit" /\ calls[p].pc = "done"
    /\ calls[p].result.status = 201

(* C13: the steps of a commit come in the order cache read, store put,
   catalog insert, cache delete. The step in which a commit arrives reads the
   cache and writes neither the store nor the catalog; the put of a commit
   comes while the call has inserted no record, and leaves the catalog and
   the cache alone; the step that inserts the record of a commit is taken
   after the put of that call has written the blob under newFilename, and
   leaves the store and the cache alone; the delete comes after the insert,
   with the record in the catalog; and once the call has returned its
   FileRecord the blob is in the store, the record is in the catalog and the
   cacheKey entry is not in the cache. *)
C13_CommitStepOrder ==
    [][\A p \in Procs :
          /\ Arrives(p, "commit") =>
                /\ store' = store /\ catalog' = catalog
                /\ calls'[p].db_file = <<>>
                /\ calls'[p].pc \in {"put", "done"}
          /\ Leaves(p, "commit", "put") =>
                /\ calls[p].db_file = <<>>
                /\ catalog' = catalog /\ cache' = cache
                /\ calls'[p].pc \in {"insert", "done"}
                /\ calls'[p].pc = "insert" =>
                      /\ calls[p].filename \in DOMAIN store'
                      /\ store'[calls[p].filename] = calls[p].data
                /\ calls'[p].pc = "done" =>
                      /\ store' = store /\ calls'[p].result.file = <<>>
          /\ Leaves(p, "commit", "insert") =>
                /\ calls[p].filename \in DOMAIN store
                /\ store' = store /\ cache' = cache
                /\ calls'[p].pc \in {"delete", "done"}
                /\ calls'[p].pc = "delete" =>
                      /\ catalog' = Append(catalog, calls'[p].db_file[1])
                      /\ calls'[p].db_file[1].filename = calls[p].filename
                /\ calls'[p].pc = "done" =>
                      /\ catalog' = catalog /\ calls'[p].result.file = <<>>
          /\ Leaves(p, "commit", "delete") =>
                /\ InCatalog(calls[p].db_file[1])
                /\ store' = store /\ catalog' = catalog
                /\ calls'[p].pc = "done"
                /\ calls'[p].result.status = 201
                /\ calls'[p].result.file = calls[p].db_file
          /\ (calls[p].op = "commit" /\ catalog' # catalog /\ calls'[p] # calls[p]) =>
                calls[p].pc = "insert"
          /\ Committed(p)' =>
                /\ calls'[p].filename \in DOMAIN store'
                /\ \E i \in 1..Len(catalog') : catalog'[i] = calls'[p].result.file[1]
                /\ calls'[p].result.file[1].filename = calls'[p].filename
                /\ calls'[p].cache_key \notin DOMAIN cache']_vars

\* a commit has returned its FileRecord: what it wrote is under newFilename,
\* its record is in the catalog, and the key it read is gone from the cache
C13_Witness ==
    \E p \in Procs :
        /\ Committed(p)
        /\ calls[p].filename \in DOMAIN store
        /\ store[calls[p].filename] = calls[p].data
        /\ InCatalog(calls[p].result.file[1])
        /\ calls[p].cache_key \in issued
        /\ calls[p].cache_key \notin DOMAIN cache

(* C14: an upload is not atomic across the two stores. When its put has
   written the blob and its catalog insert fails, the call returns the
   catalog-write error, nothing is rolled back: the store is as the put left
   it, with a blob under the filename, and the catalog has gained no record,
   so the call has no FileRecord. *)
C14_UploadNotAtomic ==
    [][\A p \in Procs :
          (/\ Leaves(p, "upload", "insert")
           /\ RecordsNamed(calls[p].filename) # {}) =>
             /\ calls'[p].pc = "done"
             /\ calls'[p].result = Result(500, DbErrorDetail)
             /\ calls'[p].result.file = <<>>
             /\ calls[p].filename \in DOMAIN store
             /\ store' = store
             /\ catalog' = catalog]_vars

\* the upload has failed at the insert, and the blob it has put is in the
\* store, in the place of the blob of the upload that has the record
C14_Witness ==
    \E p, q \in Procs :
        /\ calls[p].op = "upload" /\ calls[p].pc = "done"
        /\ calls[p].result = Result(500, DbErrorDetail)
        /\ calls[q].op = "upload" /\ calls[q].pc = "done"
        /\ calls[q].result.status = 201
        /\ calls[q].filename = calls[p].filename
        /\ calls[q].data # calls[p].data
        /\ store[calls[p].filename] = calls[p].data
        /\ RecordsNamed(calls[p].filename) = {calls[q].result.file[1].id}

(* C15: a merge writes neither the catalog nor the store. No step of a merge
   changes the store or the catalog; a step in which a merge fails (404 for
   an id with no record, 500 for a blob that cannot be fetched or decoded,
   400 for a missing column) changes the cache neither; and the step in
   which a merge succeeds changes the cache by one entry, under a key that
   was not there, and leaves every other entry as it was. *)
C15_MergeFrame ==
    [][\A p \in Procs :
          (\/ Arrives(p, "merge")
           \/ Leaves(p, "merge", "fetch")
           \/ Leaves(p, "merge", "cache_set")) =>
             /\ store' = store
             /\ catalog' = catalog
             /\ (calls'[p].pc = "done" /\ calls'[p].result.status # 200) =>
                   /\ calls'[p].result.status \in {404, 500, 400}
                   /\ cache' = cache
                   /\ issued' = issued
             /\ calls'[p].pc \in {"fetch", "cache_set"} => cache' = cache
             /\ (calls'[p].pc = "done" /\ calls'[p].result.status = 200) =>
                   LET k == calls'[p].result.cache_key
                   IN /\ k \notin DOMAIN cache
                      /\ DOMAIN cache' = DOMAIN cache \cup {k}
                      /\ \A j \in DOMAIN cache : cache'[j] = cache[j]
                      /\ cache'[k].value = calls[p].merged_json]_vars

MergeFailed(status) ==
    \E p \in Procs : /\ calls[p].op = "merge" /\ calls[p].pc = "done"
                     /\ calls[p].result.status = status

\* one merge has failed and one has stored its result: the store and the
\* catalog hold what the one upload left, and the cache holds the one entry
C15_Witness ==
    /\ MergeFailed(404)
    /\ \E p \in StoredMerges : calls[p].result.cache_key \in DOMAIN cache
    /\ Len(catalog) = 1
    /\ Cardinality(DOMAIN store) = 1
    /\ Cardinality(DOMAIN cache) = 1

(* C16: a commit whose newFilename has an extension other than csv and xlsx
   is rejected and consumes nothing: it does not get as far as the store put
   or the catalog insert, and it does not return a FileRecord. *)
C16_UnsupportedCommitWritesNothing ==
    \A p \in Procs :
        (/\ calls[p].op = "commit"
         /\ FormatOf(calls[p].filename) \notin {"csv", "xlsx"}) =>
            /\ calls[p].pc \notin {"insert", "delete"}
            /\ ~Committed(p)

\* the FileRecords the calls have returned
Returned ==
    {calls[p].result.file[1] : p \in {q \in Procs : calls[q].result.file # <<>>}}

(* C17: FileRecords are stable. Whatever step is taken, every record of the
   catalog is in the catalog after it with the same id, filename and format,
   a record that the step adds has an id that no record had, no two records
   have the same id, and every FileRecord that a call has returned is in the
   catalog as it was returned. *)
C17_RecordsStable ==
    [][/\ Len(catalog') >= Len(catalog)
       /\ \A i \in 1..Len(catalog) : catalog'[i] = catalog[i]
       /\ \A i \in (Len(catalog) + 1)..Len(catalog') :
            \A j \in 1..Len(catalog) : catalog'[i].id # catalog[j].id
       /\ \A i, j \in 1..Len(catalog') :
            catalog'[i].id = catalog'[j].id => i = j
       /\ \A rec \in Returned' : \E i \in 1..Len(catalog') : catalog'[i] = rec]_vars

\* an upload has its record, a second upload of the name has failed at the
\* insert, and a later call has got the next id: the first record is as it was
C17_Witness ==
    \E p, q, r \in Procs :
        /\ calls[p].seq < calls[q].seq /\ calls[q].seq < calls[r].seq
        /\ calls[p].pc = "done" /\ calls[p].result.file # <<>>
        /\ calls[q].pc = "done" /\ calls[q].result = Result(500, DbErrorDetail)
        /\ calls[q].filename = calls[p].filename
        /\ calls[r].pc = "done" /\ calls[r].result.file # <<>>
        /\ catalog = <<calls[p].result.file[1], calls[r].result.file[1]>>
        /\ calls[p].result.file[1].id # calls[r].result.file[1].id

(* C18: an upload or a commit that returns an error does not replace the
   blob of a filename that has a FileRecord. A call whose put comes when its
   filename has a record is such a call, for its insert is then bound to
   fail on the unique name; so the put step of an upload or a commit onto a
   filename that has a record leaves the store as it was. *)
C18_FailedCallKeepsRegisteredBlob ==
    [][\A p \in Procs :
          (/\ Leaves(p, "upload", "put") \/ Leaves(p, "commit", "put")
           /\ RecordsNamed(calls[p].filename) # {}) =>
             store' = store]_vars

(* C19: no record is an orphan. In every reachable state every FileRecord of
   the catalog has a blob in the store under its filename; so a merge that
   has found its two records has their two blobs to fetch, then and in
   every later state. *)
C19_NoOrphanRecord ==
    /\ \A i \in 1..Len(catalog) : catalog[i].filename \in DOMAIN store
    /\ \A p \in Procs :
          (calls[p].op = "merge" /\ calls[p].metas # <<>>) =>
             /\ calls[p].metas[1].filename \in DOMAIN store
             /\ calls[p].metas[2].filename \in DOMAIN store

\* an upload has failed at the put and has left neither blob nor record, and
\* a merge has fetched the blobs of a record that another upload has made
C19_Witness ==
    \E p, q, m \in Procs :
        /\ calls[p].op = "upload" /\ calls[p].pc = "done"
        /\ calls[p].result.status \in {500, 503}
        /\ calls[p].filename \notin DOMAIN store
        /\ RecordsNamed(calls[p].filename) = {}
        /\ calls[q].op = "upload" /\ calls[q].pc = "done"
        /\ calls[q].result.status = 201
        /\ m \in StoredMerges
        /\ calls[m].metas[1] = calls[q].result.file[1]
        /\ calls[m].metas[1].filename \in DOMAIN store

\* the commits of key k that have returned a FileRecord
Consumers(k) == {p \in Procs : Committed(p) /\ calls[p].cache_key = k}

(* C20: a staged merge is consumed at most once. In every reachable state,
   of the commits that have used one cacheKey, with whatever filenames, at
   most one has returned a FileRecord, and at most one record of the catalog
   has come from that key. *)
C20_ConsumedAtMostOnce ==
    \A k \in issued :
        /\ Cardinality(Consumers(k)) <= 1
        /\ Cardinality({calls[p].db_file : p \in
              {q \in Procs : calls[q].op = "commit" /\ calls[q].cache_key = k
                             /\ calls[q].db_file # <<>>}}) <= 1

\* a commit has returned its FileRecord, and a later commit of the same key
\* to another filename has found nothing
C20_Witness ==
    \E p, q \in Procs :
        /\ Committed(p)
        /\ calls[p].seq < calls[q].seq
        /\ calls[q].op = "commit" /\ calls[q].pc = "done"
        /\ calls[q].cache_key = calls[p].cache_key
        /\ calls[q].filename # calls[p].filename
        /\ calls[q].result = NotFoundResult
        /\ Len(catalog) = 2

====
